---- MODULE Spec2Model ----
(***************************************************************************)
(* Model of the commit retrieval pipeline of the releaser (lib/git.js):    *)
(* retrieve re-derives the issue references of every commit, fetches the   *)
(* referenced issues from the tracker in batches with per-call retry, and  *)
(* groups the commits by external (issue label) and local (commit name)    *)
(* rules.  read lists and parses the tags of a repository, selects the     *)
(* release window and lists and parses its commits; main (bin/main.js)     *)
(* calls read, then retrieve, then renders and writes the changelog.       *)
(* Spec is retrieve called on its own, ReadSpec is read called on its own, *)
(* MainSpec is a run of main.                                              *)
(*                                                                         *)
(* Text is modelled as a sequence of tokens: a commit name such as         *)
(* "Fix #10 x" is <<"Fix", " ", "#", "1", "0", " ", "x">>.  A regular      *)
(* expression is a sequence of elements, each a token class with a         *)
(* quantifier, matched greedily with backtracking as the JS engine does.   *)
(***************************************************************************)
EXTENDS Integers, Sequences, FiniteSets, TLC

\* ------------------------------------------------------------------ bounds
MaxCommits == 2     \* longest commit list of the classification runs
MaxIssues == 4      \* longest commit list of the fetch runs (one issue each)
MaxBatch == 2       \* largest batch size n given to getIssuesFromGitHub
MaxRetries == 3     \* largest retry budget given to getWithRetry
MaxExec == 3        \* cap on the iterations of one matchGithubIssues loop
MaxNodes == 3       \* most commits of a repository of the read runs

\* ------------------------------------------------------- sequence helpers
Min(S) == CHOOSE x \in S : \A y \in S : x <= y
Max(S) == CHOOSE x \in S : \A y \in S : x >= y

RECURSIVE Flatten(_)
\* _.flatMap(xs, identity) over a sequence of sequences
Flatten(ss) == IF ss = <<>> THEN <<>> ELSE Head(ss) \o Flatten(Tail(ss))

\* ---------------------------------------------------------------- strings
\* String.prototype.indexOf(t): 0-based offset of the first occurrence, -1 if none
IndexOf(s, t) ==
    LET occ == { p \in 0..(Len(s) - Len(t)) : SubSeq(s, p + 1, p + Len(t)) = t }
    IN IF occ = {} THEN -1 ELSE Min(occ)

\* String.prototype.includes(t)
Includes(s, t) == IndexOf(s, t) # -1

\* String.prototype.replace(t, '') for a string t: the first occurrence only
ReplaceString(s, t) ==
    LET p == IndexOf(s, t)
    IN IF p = -1 THEN s ELSE SubSeq(s, 1, p) \o SubSeq(s, p + Len(t) + 1, Len(s))

\* ---------------------------------------------------- regular expressions
\* Length of the longest run of tokens of class cls starting at position pos (1-based)
Run(cls, s, pos) ==
    Max({ j \in 0..(Len(s) - pos + 1) : \A i \in pos..(pos + j - 1) : s[i] \in cls })

RECURSIVE MatchFrom(_, _, _, _)
\* Match elements k.. of the pattern at position pos: the start position of each
\* element followed by the end position, or <<>> when there is no match.
\* Quantifiers are greedy; a shorter repetition is tried when the rest fails.
MatchFrom(src, k, s, pos) ==
    IF k > Len(src) THEN <<pos>>
    ELSE LET e == src[k]
             run == Run(e.cls, s, pos)
             lo == IF e.q \in {"one", "plus"} THEN 1 ELSE 0
             hi == IF e.q \in {"one", "opt"} THEN (IF run > 0 THEN 1 ELSE 0) ELSE run
             ok == { j \in lo..hi : MatchFrom(src, k + 1, s, pos + j) # <<>> }
         IN IF ok = {} THEN <<>> ELSE <<pos>> \o MatchFrom(src, k + 1, s, pos + Max(ok))

\* RegExp.prototype.exec(s) of a regex whose lastIndex is li.  A global regex searches
\* from lastIndex and stores the end of the match there (0 after a failed search);
\* a regex without the global flag searches from 0 and leaves lastIndex alone.
\* group2 is the text of the element the second capture group wraps.
Exec(re, li, s) ==
    LET from == IF re.global THEN li ELSE 0
        at == { p \in from..Len(s) : MatchFrom(re.src, 1, s, p + 1) # <<>> }
    IN IF at = {}
       THEN [found |-> FALSE, index |-> -1, end |-> -1, group2 |-> <<>>,
             lastIndex |-> IF re.global THEN 0 ELSE li]
       ELSE LET p == Min(at)
                b == MatchFrom(re.src, 1, s, p + 1)
                e == b[Len(b)] - 1
            IN [found |-> TRUE, index |-> p, end |-> e,
                group2 |-> SubSeq(s, b[re.grp2], b[re.grp2 + 1] - 1),
                lastIndex |-> IF re.global THEN e ELSE li]

RECURSIVE ReplaceAllFrom(_, _, _)
\* The replace loop of a global regex from offset pos: every match is removed; after
\* an empty match the search advances by one token.
ReplaceAllFrom(re, s, pos) ==
    LET m == Exec([re EXCEPT !.global = TRUE], pos, s)
    IN IF pos > Len(s) \/ ~m.found THEN SubSeq(s, pos + 1, Len(s))
       ELSE IF m.end = m.index
            THEN SubSeq(s, pos + 1, Min({m.index + 1, Len(s)}))
                 \o ReplaceAllFrom(re, s, m.index + 1)
            ELSE SubSeq(s, pos + 1, m.index) \o ReplaceAllFrom(re, s, m.end)

\* String.prototype.replace(re, '') for a regex: the first match, or every match when
\* the regex is global
ReplaceRegex(s, re) ==
    IF re.global THEN ReplaceAllFrom(re, s, 0)
    ELSE LET m == Exec(re, 0, s)
         IN IF ~m.found THEN s
            ELSE SubSeq(s, 1, m.index) \o SubSeq(s, m.end + 1, Len(s))

\* ------------------------------------------------------------ issue numbers
Digits == {"0", "1", "2"}
DigitVal(d) == CASE d = "0" -> 0 [] d = "1" -> 1 [] d = "2" -> 2

RECURSIVE ParseInt(_)
\* parseInt(text, 10) of a non-empty digit string
ParseInt(ds) ==
    IF Len(ds) = 1 THEN DigitVal(ds[1])
    ELSE 10 * ParseInt(SubSeq(ds, 1, Len(ds) - 1)) + DigitVal(ds[Len(ds)])

DigitTok(v) == CHOOSE d \in Digits : DigitVal(d) = v

RECURSIVE NumToStr(_)
\* String(number): the property key under which agg[number] stores an issue
NumToStr(v) == IF v < 10 THEN <<DigitTok(v)>> ELSE Append(NumToStr(v \div 10), DigitTok(v % 10))

\* ------------------------------------------------------------------ inputs
Ref(kw, ds) == <<kw, " ", "#">> \o ds

Messages == {
    Ref("Fix", <<"1">>) \o <<" ", "x">>,                         \* Fix #1 x
    Ref("Fix", <<"1">>) \o <<" ">> \o Ref("Close", <<"2">>),     \* Fix #1 Close #2
    Ref("Close", <<"1">>) \o <<" ">> \o Ref("Close", <<"1">>),   \* Close #1 Close #1
    Ref("Fix", <<"0", "1">>),                                    \* Fix #01
    <<"Hotfix", " ", "-", " ", "x">>,                            \* Hotfix - x
    Ref("Fix", <<"1", "0">>) \o <<" ", "Hotfix", " ", "-", " ", "x">>, \* Fix #10 Hotfix - x
    <<"Merge", " ", "x">>,                                       \* Merge x
    <<"Hotfix", " ", "-", " ", "Hotfix", " ", "-", " ", "x">> }  \* Hotfix - Hotfix - x

\* /(Fix|Close|Resolve) #(\d+)/ with or without the g flag
IssueRegex(g) ==
    [src |-> << [cls |-> {"Fix", "Close", "Resolve"}, q |-> "one"],
                [cls |-> {" "}, q |-> "one"],
                [cls |-> {"#"}, q |-> "one"],
                [cls |-> Digits, q |-> "plus"] >>,
     grp2 |-> 4, global |-> g]

\* /(Close) #(\d+)/g, a pattern a configuration file may supply
CloseRegex ==
    [src |-> << [cls |-> {"Close"}, q |-> "one"],
                [cls |-> {" "}, q |-> "one"],
                [cls |-> {"#"}, q |-> "one"],
                [cls |-> Digits, q |-> "plus"] >>,
     grp2 |-> 4, global |-> TRUE]

IssueRegexes == { IssueRegex(TRUE), IssueRegex(FALSE), CloseRegex }

\* /(#)?(\d*)/g, a pattern of a configuration file that also matches the empty text
NumberRegex ==
    [src |-> << [cls |-> {"#"}, q |-> "opt"],
                [cls |-> Digits, q |-> "star"] >>,
     grp2 |-> 2, global |-> TRUE]

\* /Hotfix [-~]? ?/ with or without the g flag
HotfixRegex(g) ==
    [src |-> << [cls |-> {"Hotfix"}, q |-> "one"],
                [cls |-> {" "}, q |-> "one"],
                [cls |-> {"-", "~"}, q |-> "opt"],
                [cls |-> {" "}, q |-> "opt"] >>,
     grp2 |-> 1, global |-> g]

Str(t) == [type |-> "string", text |-> t]
Re(r) == [type |-> "RegExp", re |-> r]

\* labelSchema: the match of a rule is a string or a RegExp, with any flags
ValidMatch(match) == match.type \in {"string", "RegExp"}

\* labels.external and labels.local of a configuration
RuleConfigs == {
    [external |-> <<>>, local |-> <<>>],
    [external |-> << [match |-> "Bug", name |-> "Bugs"] >>,
     local |-> << [match |-> Re(HotfixRegex(FALSE)), name |-> "Others"] >>],
    [external |-> << [match |-> "Feature", name |-> "Features"],
                     [match |-> "Bug", name |-> "Bugs"] >>,
     local |-> << [match |-> Str(<<"Hotfix", " ", "-", " ">>), name |-> "Others"],
                  [match |-> Str(<<"x">>), name |-> "Misc"] >>] }

\* The defaults of parseCmd: the label rules and the issue pattern a run has when
\* the configuration file sets none
DefaultConfig ==
    [external |-> << [match |-> "Feature", name |-> "Features"],
                     [match |-> "Bug", name |-> "Bugs"] >>,
     local |-> << [match |-> Re(HotfixRegex(FALSE)), name |-> "Others"] >>]
DefaultIssueRegex == IssueRegex(TRUE)

\* The label arrays the tracker holds for the issues; a number outside the domain
\* has no issue (every request for it fails).
Tracker == (1 :> {"Bug"}) @@ (2 :> {"Bug", "Feature"}) @@ (10 :> {"Question"})

RECURSIVE ExecAll(_, _, _, _)
\* matchGithubIssues run to completion, for a regex on which the loop terminates
ExecAll(re, li, s, fuel) ==
    LET m == Exec(re, li, s)
    IN IF ~m.found \/ fuel = 0 THEN <<>>
       ELSE <<m.group2>> \o ExecAll(re, m.lastIndex, s, fuel - 1)

\* A commit as commitParser returns it; an earlier caller may already have set
\* the issues field with the default pattern.
Commit(h, m, withIssues) ==
    IF withIssues
    THEN [name |-> m, hash |-> h, issues |-> ExecAll(IssueRegex(TRUE), 0, m, MaxExec)]
    ELSE [name |-> m, hash |-> h]

\* Commit lists of the classification runs: every list of up to MaxCommits messages
CommitLists ==
    UNION { { [i \in 1..k |-> Commit(i, ms[i], w)] : ms \in [1..k -> Messages], w \in BOOLEAN }
            : k \in 0..MaxCommits }

\* Commit lists of the fetch runs: k commits referencing issues 1, 2, 1, 1, 2, 1, ...
RefDigit(i) == IF i % 3 = 2 THEN "2" ELSE "1"
RefLists ==
    { [i \in 1..k |-> Commit(i, Ref("Fix", <<RefDigit(i)>>), FALSE)] : k \in 0..MaxIssues }

\* Commit names of the runs with the default rules
HotfixMessages == {
    <<"Hotfix", " ", "-", " ", "x">>,                              \* Hotfix - x
    <<"Hotfix", ":", " ", "x">>,                                   \* Hotfix: x
    <<"Hotfix", " ", "-", " ">> \o Ref("Fix", <<"1">>),            \* Hotfix - Fix #1
    <<"Merge", " ", "x">> }                                        \* Merge x

\* Commit lists of the runs with the default rules
HotfixLists ==
    UNION { { [i \in 1..k |-> Commit(i, ms[i], w)] : ms \in [1..k -> HotfixMessages], w \in BOOLEAN }
            : k \in 0..MaxCommits }

\* ------------------------------------------------------------- repository
\* A repository of the read runs: commits 1..size, commit 1 the root.  In a chain
\* every commit is the child of the one before it; in a fork every later commit is
\* a child of the root.  deco[c] says which refs decorate commit c and date[c] is
\* its author date.
Reachable(repo, c) == IF repo.shape = "chain" THEN 1..c ELSE {1, c}

\* Hours of the timestamps with offset +00:00, in increasing order: 00, 01, 02, 10, ...
Hour(c) == <<DigitTok((c - 1) \div 3), DigitTok((c - 1) % 3)>>

\* An ISO 8601 timestamp (%aI) is modelled by the parts in which the timestamps of
\* the runs differ: the two digits of the hour, the sign of the offset and its hours.
\* <<"0", "1", "+", "2">> stands for 2018-01-01T01:00:00+02:00.
Stamp(hh, sign, off) == hh \o <<sign, off>>

\* The instant a timestamp denotes, in hours of that day UTC
Instant(d) ==
    ParseInt(SubSeq(d, 1, 2)) - (IF d[3] = "+" THEN 1 ELSE -1) * DigitVal(d[4])

\* Timestamps of the runs that vary the author dates
Stamps == { Stamp(<<"0", "0">>, "+", "0"),      \* 00:00 UTC
            Stamp(<<"0", "1">>, "+", "2"),      \* 23:00 UTC the day before
            Stamp(<<"0", "2">>, "+", "0") }     \* 02:00 UTC

RECURSIVE Ones(_)
Ones(k) == IF k = 0 THEN <<>> ELSE Append(Ones(k - 1), "1")

\* The version the ref of commit c carries: v1, v11, v111, ...
RefName(c) == <<"v">> \o Ones(c)

\* The entries of %D for commit c, in the order git lists them
Decorations(repo, c) ==
    CASE repo.deco[c] = "none" -> <<>>
      [] repo.deco[c] = "tag" -> << <<"tag: ">> \o RefName(c) >>
      [] repo.deco[c] = "both" -> << <<"tag: ">> \o RefName(c), <<"origin/">> \o RefName(c) >>
      [] repo.deco[c] = "branch" -> << <<"origin/">> \o RefName(c) >>

DecoKinds == {"none", "tag", "both", "branch"}

RECURSIVE Join(_, _)
\* Array.prototype.join(sep) of a sequence of texts
Join(ts, sep) ==
    IF ts = <<>> THEN <<>>
    ELSE IF Len(ts) = 1 THEN ts[1]
    ELSE ts[1] \o <<sep>> \o Join(Tail(ts), sep)

RECURSIVE Split(_, _)
\* String.prototype.split(sep): the pieces between the separators; [''] for ''
Split(s, sep) ==
    LET P == { i \in 1..Len(s) : s[i] = sep }
    IN IF P = {} THEN <<s>>
       ELSE <<SubSeq(s, 1, Min(P) - 1)>> \o Split(SubSeq(s, Min(P) + 1, Len(s)), sep)

\* The byte a token starts with: the order sort compares lines by
Code(tok) ==
    CASE tok = " " -> 32
      [] tok = "+" -> 43
      [] tok = ", " -> 44
      [] tok = "-" -> 45
      [] tok \in Digits -> 48 + DigitVal(tok)
      [] tok = "origin/" -> 111
      [] tok = "tag: " -> 116
      [] tok = "v" -> 118

\* a sorts before b
LexLess(a, b) ==
    \E k \in 1..Len(b) :
        /\ \A i \in 1..(k - 1) : i <= Len(a) /\ a[i] = b[i]
        /\ k > Len(a) \/ (a[k] # b[k] /\ Code(a[k]) < Code(b[k]))

\* sort -r of a set of distinct lines: descending
SortReverse(L) ==
    [k \in 1..Cardinality(L) |->
        CHOOSE l \in L : Cardinality({ m \in L : LexLess(l, m) }) = k - 1]

\* One line of git log --pretty="format:%aI %D"
TagLine(repo, c) == repo.date[c] \o <<" ">> \o Join(Decorations(repo, c), ", ")

\* read's count argument of getLatestTagsFromGit
TagCount == 20

\* getLatestTagsFromGit: the lines of the decorated commits that grep tag: keeps,
\* sorted by sort -r, the first count of them, as one text
getLatestTagsFromGit(repo, count) ==
    LET kept == { TagLine(repo, c) : c \in { d \in 1..repo.size :
                        \E i \in DOMAIN Decorations(repo, d) :
                            Includes(Decorations(repo, d)[i], <<"tag: ">>) } }
        sorted == SortReverse(kept)
    IN Join(SubSeq(sorted, 1, Min({count, Len(sorted)})), "\n")

\* The tokens a text of the read runs is made of
Tokens == Digits \cup {" ", "+", "-", ", ", "tag: ", "origin/", "v", "#", "Fix"}

Absent == [type |-> "undefined"]

\* /v\d+/, a tag pattern of a configuration
VersionRegex ==
    [src |-> << [cls |-> {"v"}, q |-> "one"], [cls |-> Digits, q |-> "plus"] >>,
     grp2 |-> 1, global |-> FALSE]

TagRegexes == { Absent, Re(VersionRegex) }

\* x.match(tagRegex): an undefined pattern matches every text; match searches from
\* the start whatever the flags
MatchesTag(x, tagRegex) ==
    IF tagRegex.type = "undefined" THEN TRUE
    ELSE Exec([tagRegex.re EXCEPT !.global = FALSE], 0, x).found

\* /([^ ]+) (.*)/
TagLineRegex ==
    [src |-> << [cls |-> Tokens \ {" ", ", ", "tag: "}, q |-> "plus"],
                [cls |-> {" "}, q |-> "one"],
                [cls |-> Tokens, q |-> "star"] >>,
     grp2 |-> 3, global |-> FALSE]

\* tagParser(tagRegex)(input): the entries of the decoration, 'tag: ' removed, that
\* match the pattern, each with the date of the line
tagParser(tagRegex, input) ==
    LET m == Exec(TagLineRegex, 0, input)
    IN IF ~m.found \/ m.group2 = <<>> THEN <<>>
       ELSE LET b == MatchFrom(TagLineRegex.src, 1, input, m.index + 1)
                date == SubSeq(input, b[1], b[2] - 1)
                xs == Split(m.group2, ", ")
                ys == [i \in 1..Len(xs) |-> ReplaceString(xs[i], <<"tag: ">>)]
                F[i \in 0..Len(ys)] ==
                    IF i = 0 THEN <<>>
                    ELSE IF MatchesTag(ys[i], tagRegex)
                         THEN Append(F[i - 1], [name |-> ys[i], date |-> date])
                         ELSE F[i - 1]
            IN F[Len(ys)]

\* parseOutput, given what the parser returned for each line of the input: a
\* sequence of records, empty where the parser returned nothing
parseOutput(parsed) == Flatten(parsed)

Nothing == [undefined |-> TRUE]
NoTag == <<>>

getTagsBetweenSwapped(tags, tag) ==
    LET found == { i \in 1..Len(tags) : tags[i].name = tag }
        fromIndex == IF tag # NoTag THEN (IF found = {} THEN -1 ELSE Min(found) - 1) ELSE 0
        toIndex == fromIndex + 1
    IN IF fromIndex = -1 \/ toIndex >= Len(tags) THEN Nothing
       ELSE [from |-> tags[toIndex + 1], to |-> tags[fromIndex + 1]]

\* getTagsBetween({ tags, tag }), indices as in the code (from 0)
getTagsBetween(tags, tag) ==
    LET found == { i \in 1..Len(tags) : tags[i].name = tag }
        fromIndex == IF tag # NoTag THEN (IF found = {} THEN -1 ELSE Min(found) - 1) ELSE 0
        toIndex == fromIndex + 1
    IN IF fromIndex = -1 \/ toIndex >= Len(tags) THEN Nothing
       ELSE [from |-> tags[fromIndex + 1], to |-> tags[toIndex + 1]]

\* The ref a name given to git log resolves to
Resolve(repo, name) ==
    CHOOSE c \in 1..repo.size :
        \E i \in DOMAIN Decorations(repo, c) :
            ReplaceString(Decorations(repo, c)[i], <<"tag: ">>) = name

\* %h of the commits, nine characters each
Hashes == <<"1a2b3c4d5", "2b3c4d5e6", "3c4d5e6f7", "4d5e6f7a8", "5e6f7a8b9", "6f7a8b9c0">>

\* %s of commit c: Fix #1, Fix #2, Fix #1, ...
Subject(c) == Ref("Fix", <<RefDigit(c)>>)

\* One line of git log --pretty=format:"%h %aI %s"
CommitLine(repo, c) == <<Hashes[c], " ">> \o repo.date[c] \o <<" ">> \o Subject(c)

RECURSIVE Listing(_, _, _)
\* The lines of the commits of S from commit c down, children before parents
Listing(repo, S, c) ==
    IF c = 0 THEN <<>>
    ELSE (IF c \in S THEN <<CommitLine(repo, c)>> ELSE <<>>) \o Listing(repo, S, c - 1)

\* The commits from...to selects: those reachable from one of the two refs and not
\* from both
RangeThreeDot(repo, from, to) ==
    (Reachable(repo, from) \cup Reachable(repo, to))
        \ (Reachable(repo, from) \cap Reachable(repo, to))

\* getCommitsFromGit: git log of ${from}...${to}
getCommitsFromGit(repo, from, to) ==
    Join(Listing(repo, RangeThreeDot(repo, Resolve(repo, from), Resolve(repo, to)),
                 repo.size), "\n")

\* commitParser: /^(.{9}) ([^ ]+) (.*)/ matched at the start of the line; nothing
\* (the empty sequence here) when the line does not match
commitParser(input) ==
    LET src == << [cls |-> { Hashes[i] : i \in DOMAIN Hashes }, q |-> "one"],
                  [cls |-> {" "}, q |-> "one"],
                  [cls |-> Tokens \ {" ", ", ", "tag: "}, q |-> "plus"],
                  [cls |-> {" "}, q |-> "one"],
                  [cls |-> Tokens, q |-> "star"] >>
        b == MatchFrom(src, 1, input, 1)
    IN IF b = <<>> THEN <<>>
       ELSE << [name |-> SubSeq(input, b[5], b[6] - 1),
                hash |-> input[b[1]],
                date |-> SubSeq(input, b[3], b[4] - 1)] >>

\* { ...commit, ...extra }
Spread(commit, extra) ==
    [f \in (DOMAIN commit) \cup (DOMAIN extra) |->
        IF f \in DOMAIN extra THEN extra[f] ELSE commit[f]]

\* Repositories of the read runs that vary the decorations
DecoratedRepos ==
    UNION { { [size |-> k, shape |-> "chain", deco |-> d,
               date |-> [c \in 1..k |-> Stamp(Hour(c), "+", "0")]] :
              d \in [1..k -> DecoKinds] } : k \in 0..MaxNodes }

\* Repositories that vary the author dates of tagged commits
DatedRepos ==
    UNION { { [size |-> k, shape |-> "chain", deco |-> [c \in 1..k |-> "tag"],
               date |-> t] : t \in [1..k -> Stamps] } : k \in 2..MaxNodes }

\* Repositories that vary the commit graph of tagged commits
ShapedRepos ==
    UNION { { [size |-> k, shape |-> sh,
               deco |-> [c \in 1..k |-> IF c = 1 /\ rootless THEN "none" ELSE "tag"],
               date |-> [c \in 1..k |-> Stamp(Hour(c), "+", "0")]] :
              sh \in {"chain", "fork"}, rootless \in BOOLEAN } : k \in 2..MaxNodes }

\* The targets a run may name: none, a tag of the repository, a name it lacks
Targets(repo) == {NoTag, <<"v", "0">>} \cup { RefName(c) : c \in 1..repo.size }

\* ------------------------------------------------------------------- state
VARIABLES
    commits,            \* retrieve's commits argument
    issueRegex,         \* retrieve's issueRegex argument
    externalLabels,     \* retrieve's externalLabels argument
    localLabels,        \* retrieve's localLabels argument
    n,                  \* getIssuesFromGitHub's batch size
    retries,            \* getWithRetry's budget
    tracker,            \* the issues the remote tracker holds
    pc,                 \* where retrieve is: "map", "await", "delay", "done", "failed"
    ci,                 \* index of the commit whose name is being matched
    cur,                \* result array of the running matchGithubIssues call
    lastIndex,          \* issueRegex.lastIndex
    commitsWithIssues,  \* the commits mapped so far
    numbers,            \* the issue numbers handed to the fetcher
    batch,              \* index of the chunk being fetched
    calls,              \* the get() calls, by position in numbers
    result,             \* getIssuesFromGitHub's result array
    error,              \* the error retrieve rejected with
    issues,             \* the issue mapping retrieve returns
    groupedCommits,     \* the groups retrieve returns
    attempts,           \* history: requests sent, by position in numbers
    fails,              \* history: requests the tracker failed, by position
    fetched,            \* history: requests the tracker answered, by position
    waits,              \* history: retry delays started, by position
    batches,            \* history: sizes of the chunks issued
    delays,             \* history: inter-batch delays started
    elapsed,            \* history: inter-batch delays elapsed
    reordered,          \* history: a call resolved before one of a lower slot
    repo,               \* the git repository in read's dir
    tag,                \* read's tag argument
    tagRegex,           \* read's tagRegex argument
    tags,               \* the tags read parsed
    between,            \* what getTagsBetween returned to read
    readResult,         \* what read returned
    readError,          \* the message of the error read threw
    queries,            \* history: the git commands read has run
    output,             \* main's output argument: whether a directory is given
    rotate,             \* main's rotate argument
    mpc,                \* where main is: "tags", "commits", "read.done", "read.failed",
                        \* "retrieve", "write", "rotate", "files.failed", "exited"
    rendered,           \* history: render.all was called
    written,            \* history: the output file was written
    rotated,            \* history: the old files were rotated
    exitCode            \* the exit status of the process, -1 while it runs

inputs == <<commits, issueRegex, externalLabels, localLabels, n, retries, tracker>>
mapper == <<ci, cur, lastIndex, commitsWithIssues>>
fetcher == <<numbers, batch, calls, result>>
history == <<attempts, fails, fetched, waits, batches, delays, elapsed, reordered>>
reader == <<repo, tag, tagRegex, tags, between, readResult, readError, queries>>
runner == <<output, rotate, mpc, rendered, written, rotated, exitCode>>
vars == <<inputs, pc, mapper, fetcher, error, issues, groupedCommits, history,
          reader, runner>>

NoError == <<0, 0>>
NoValue == [number |-> -1, labels |-> {}]

\* Runs that vary what is classified, fetched one issue at a time without retry
ClassifyInputs ==
    /\ commits \in CommitLists
    /\ issueRegex \in IssueRegexes
    /\ \E c \in RuleConfigs : externalLabels = c.external /\ localLabels = c.local
    /\ n = 1
    /\ retries = 1

\* Runs that vary how the issues are fetched
FetchInputs ==
    /\ commits \in RefLists
    /\ issueRegex = IssueRegex(TRUE)
    /\ externalLabels = DefaultConfig.external
    /\ localLabels = DefaultConfig.local
    /\ n \in 1..MaxBatch
    /\ retries \in 1..MaxRetries

\* Runs with the rules and the issue pattern of the defaults
DefaultInputs ==
    /\ commits \in HotfixLists
    /\ issueRegex = DefaultIssueRegex
    /\ externalLabels = DefaultConfig.external
    /\ localLabels = DefaultConfig.local
    /\ n = 1
    /\ retries = 1

\* Runs with a configuration file that sets the issue pattern and a local rule with
\* the g flag
ConfiguredInputs ==
    /\ commits \in HotfixLists
    /\ issueRegex \in {DefaultIssueRegex, NumberRegex}
    /\ externalLabels = DefaultConfig.external
    /\ localLabels = << [match |-> Re(HotfixRegex(TRUE)), name |-> "Others"] >>
    /\ n = 1
    /\ retries = 1

\* retrieve has not started
Unfetched ==
    /\ ci = 1
    /\ cur = <<>>
    /\ lastIndex = 0
    /\ commitsWithIssues = <<>>
    /\ numbers = <<>>
    /\ batch = 0
    /\ calls = <<>>
    /\ result = <<>>
    /\ error = NoError
    /\ issues = <<>>
    /\ groupedCommits = <<>>
    /\ attempts = <<>>
    /\ fails = <<>>
    /\ fetched = <<>>
    /\ waits = <<>>
    /\ batches = <<>>
    /\ delays = 0
    /\ elapsed = 0
    /\ reordered = FALSE

NoRepo == [size |-> 0, shape |-> "chain", deco |-> <<>>, date |-> <<>>]

\* read has not started and nothing was put out
Unread ==
    /\ tags = <<>>
    /\ between = Nothing
    /\ readResult = Nothing
    /\ readError = ""
    /\ rendered = FALSE
    /\ written = FALSE
    /\ rotated = FALSE
    /\ exitCode = -1

\* retrieve called on its own
Init ==
    /\ ClassifyInputs \/ FetchInputs \/ DefaultInputs \/ ConfiguredInputs
    /\ tracker = Tracker
    /\ pc = "map"
    /\ Unfetched
    /\ repo = NoRepo
    /\ tag = NoTag
    /\ tagRegex = Absent
    /\ queries = <<>>
    /\ output = FALSE
    /\ rotate = 0
    /\ mpc = "retrieve"
    /\ Unread

\* ---------------------------------------------------------- classification
\* parseGitHubIssue: the number and the label names of a response; an undefined
\* response parses to the number NaN and no labels
parseGitHubIssue(issue) ==
    IF issue.number < 0 THEN [number |-> <<"NaN">>, labels |-> {}]
    ELSE [number |-> NumToStr(issue.number), labels |-> issue.labels]

\* parseIssues(parseGitHubIssue, responses): later responses overwrite earlier ones
parseIssues(responses) ==
    LET keys == { parseGitHubIssue(responses[i]).number : i \in DOMAIN responses }
        last(k) == Max({ i \in DOMAIN responses : parseGitHubIssue(responses[i]).number = k })
    IN [k \in keys |-> [labels |-> parseGitHubIssue(responses[last(k)]).labels]]

\* commit.issues || []
IssuesOf(commit) == IF "issues" \in DOMAIN commit THEN commit.issues ELSE <<>>

filterIssueTypeIgnoresLabels(iss, match, commitIssue) == commitIssue \in DOMAIN iss

\* the filterIssueType closure of filterExternalIssues
filterIssueType(iss, match, commitIssue) ==
    /\ commitIssue \in DOMAIN iss
    /\ match \in iss[commitIssue].labels

filterExternalIssues(cs, iss, match) ==
    LET entries(commit) ==
            LET commitIssues == IssuesOf(commit)
                F[j \in 0..Len(commitIssues)] ==
                    IF j = 0 THEN <<>>
                    ELSE IF filterIssueType(iss, match, commitIssues[j])
                         THEN Append(F[j - 1], commitIssues[j])
                         ELSE F[j - 1]
                kept == F[Len(commitIssues)]
            IN [x \in 1..Len(kept) |-> Spread(commit, [issueNumber |-> kept[x]])]
    IN Flatten([i \in 1..Len(cs) |-> entries(cs[i])])

filterLocalCommitsLiteralOnly(name, iss, match, li) ==
    [keep |-> Len(iss) = 0 /\ match.type = "string" /\ Includes(name, match.text),
     lastIndex |-> li]

\* filterLocalCommits with the lastIndex of the rule's regex: whether the commit is
\* kept, and the lastIndex the call leaves.  The test is not evaluated when the
\* commit has issues.
filterLocalCommits(name, iss, match, li) ==
    IF Len(iss) # 0 THEN [keep |-> FALSE, lastIndex |-> li]
    ELSE IF match.type = "RegExp"
         THEN LET m == Exec(match.re, li, name)
              IN [keep |-> m.found, lastIndex |-> m.lastIndex]
         ELSE [keep |-> Includes(name, match.text), lastIndex |-> li]

removeMatchKeepsName(match, commit) == commit

\* removeMatch(match)(commit)
removeMatch(match, commit) ==
    [commit EXCEPT !.name = IF match.type = "RegExp"
                            THEN ReplaceRegex(commit.name, match.re)
                            ELSE ReplaceString(commit.name, match.text)]

\* The issues retrieve hands to filterLocalCommits for a commit
LocalIssues(cs, cwi, i) == IssuesOf(cs[i])

\* commits.filter(filterLocalCommits).map(removeMatch(label.match)) of one local rule
LocalGroup(cs, cwi, match) ==
    LET F[i \in 0..Len(cs)] ==
            IF i = 0 THEN [kept |-> <<>>, lastIndex |-> 0]
            ELSE LET r == filterLocalCommits(cs[i].name, LocalIssues(cs, cwi, i), match,
                                             F[i-1].lastIndex)
                 IN [kept |-> IF r.keep THEN Append(F[i-1].kept, cs[i]) ELSE F[i-1].kept,
                     lastIndex |-> r.lastIndex]
        kept == F[Len(cs)].kept
    IN [x \in 1..Len(kept) |-> removeMatch(match, kept[x])]

\* resultify(labels)(commits, i)
resultify(labels, groups, i) == [commits |-> groups[i], name |-> labels[i].name]

\* githubCommits of retrieve: the groups of the external rules
githubCommits(cwi, iss, ext) ==
    [i \in 1..Len(ext) |->
        resultify(ext, [j \in 1..Len(ext) |-> filterExternalIssues(cwi, iss, ext[j].match)], i)]

\* localCommits of retrieve: the groups of the local rules
localCommits(cs, cwi, loc) ==
    [i \in 1..Len(loc) |->
        resultify(loc, [j \in 1..Len(loc) |-> LocalGroup(cs, cwi, loc[j].match)], i)]

GroupedLocalFirst(cs, cwi, iss, ext, loc) ==
    localCommits(cs, cwi, loc) \o githubCommits(cwi, iss, ext)

\* The groupedCommits retrieve returns: [].concat(githubCommits, localCommits)
Grouped(cs, cwi, iss, ext, loc) ==
    githubCommits(cwi, iss, ext) \o localCommits(cs, cwi, loc)

\* ----------------------------------------------------------------- fetcher
\* _.chunk(issues, n): the number of chunks and the positions of chunk b
NumChunks(nums) == (Len(nums) + n - 1) \div n
ChunkPositions(nums, b) == ((b - 1) * n + 1)..Min({b * n, Len(nums)})

\* getIssueFromGitHub: what the tracker answers for a number
Response(num) == [number |-> ParseInt(num), labels |-> tracker[ParseInt(num)]]

Idle == [st |-> "idle", i |-> 0, value |-> NoValue, err |-> NoError]

LastAttemptOffByOne(i) == i = retries

LastAttemptSwallowed(i) == FALSE

\* getWithRetry: the test that makes a failed attempt rethrow
LastAttempt(i) == i = retries - 1

ReturnedKeepsLooping(call, response) == [call EXCEPT !.st = "waiting", !.value = response]

\* getWithRetry: a successful attempt returns its result and ends the loop
Returned(call, response) == [call EXCEPT !.st = "resolved", !.value = response]

JoinAny(cs, P) == \E p \in P : cs[p].st = "resolved"

\* Promise.all over the calls at positions P resolves once every one has resolved
JoinReady(cs, P) == \A p \in P : cs[p].st = "resolved"

GatherReversed(cs, b) ==
    LET size == Cardinality(ChunkPositions(cs, b))
    IN [x \in 1..size |-> cs[(b - 1) * n + (size + 1 - x)].value]

\* The array Promise.all resolves with: the values of chunk b by slot
Gather(cs, b) ==
    [x \in 1..Cardinality(ChunkPositions(cs, b)) |-> cs[(b - 1) * n + x].value]

MoreWorkInclusive(remaining) == remaining >= 0

\* The test on remaining that decides whether the inter-batch delay is waited
MoreWork(remaining) == remaining > 0

\* The head of the for loop of getIssuesFromGitHub after chunk b: the calls of the
\* next chunk are issued, or the result is returned, parsed and the commits grouped.
Loop(nums, b, res, cs, att, del) ==
    /\ result' = res
    /\ delays' = del
    /\ IF b < NumChunks(nums)
       THEN LET chunk == ChunkPositions(nums, b + 1)
            IN /\ batch' = b + 1
               /\ calls' = [p \in DOMAIN cs |->
                               IF p \in chunk THEN [Idle EXCEPT !.st = "inflight"] ELSE cs[p]]
               /\ attempts' = [p \in DOMAIN att |-> IF p \in chunk THEN att[p] + 1 ELSE att[p]]
               /\ batches' = Append(batches, Cardinality(chunk))
               /\ pc' = "await"
               /\ UNCHANGED <<issues, groupedCommits>>
       ELSE /\ batch' = b
            /\ calls' = cs
            /\ attempts' = att
            /\ batches' = batches
            /\ pc' = "done"
            /\ issues' = parseIssues(res)
            /\ groupedCommits' = Grouped(commits, commitsWithIssues, parseIssues(res),
                                         externalLabels, localLabels)

\* getIssuesFromGitHub when a call has resolved: once Promise.all resolves the values
\* are pushed, and the delay is waited or the loop goes on.
Settle(cs, att) ==
    IF pc = "await" /\ JoinReady(cs, ChunkPositions(numbers, batch))
    THEN LET res == result \o Gather(cs, batch)
         IN IF MoreWork(Len(numbers) - Len(res))
            THEN /\ pc' = "delay"
                 /\ result' = res
                 /\ delays' = delays + 1
                 /\ calls' = cs
                 /\ attempts' = att
                 /\ UNCHANGED <<batch, batches, issues, groupedCommits>>
            ELSE Loop(numbers, batch, res, cs, att, delays)
    ELSE /\ calls' = cs
         /\ attempts' = att
         /\ UNCHANGED <<pc, result, delays, batch, batches, issues, groupedCommits>>

\* ----------------------------------------------------------------- actions
\* One iteration of the loop of matchGithubIssues for commit ci: an exec call that
\* matches pushes the second group; one that returns null ends the loop and the
\* commit is copied with its issues.
MatchStep ==
    /\ mpc = "retrieve"
    /\ pc = "map"
    /\ ci <= Len(commits)
    /\ LET m == Exec(issueRegex, lastIndex, commits[ci].name)
       IN /\ lastIndex' = m.lastIndex
          /\ IF m.found
             THEN /\ Len(cur) < MaxExec
                  /\ cur' = Append(cur, m.group2)
                  /\ UNCHANGED <<ci, commitsWithIssues>>
             ELSE /\ cur' = <<>>
                  /\ ci' = ci + 1
                  /\ commitsWithIssues' =
                        Append(commitsWithIssues,
                               Spread(commits[ci], [issues |-> cur]))
    /\ UNCHANGED <<reader, runner, inputs, pc, fetcher, error, issues, groupedCommits, history>>

\* retrieve after the map: the numbers are flattened and getIssuesFromGitHub starts
BeginFetch ==
    /\ mpc = "retrieve"
    /\ pc = "map"
    /\ ci > Len(commits)
    /\ LET nums == Flatten([i \in 1..Len(commitsWithIssues) |-> commitsWithIssues[i].issues])
           zero == [p \in 1..Len(nums) |-> 0]
       IN /\ numbers' = nums
          /\ fails' = zero
          /\ fetched' = zero
          /\ waits' = zero
          /\ Loop(nums, 0, <<>>, [p \in 1..Len(nums) |-> Idle], zero, 0)
    /\ UNCHANGED <<reader, runner, inputs, mapper, error, elapsed, reordered>>

\* The tracker answers the request of the call at position p: the call returns the
\* response.
RespondOk(p) ==
    /\ mpc = "retrieve"
    /\ calls[p].st = "inflight"
    /\ ParseInt(numbers[p]) \in DOMAIN tracker
    /\ fetched' = [fetched EXCEPT ![p] = @ + 1]
    /\ reordered' = (reordered \/ \E q \in ChunkPositions(numbers, batch) :
                                      q < p /\ calls[q].st # "resolved")
    /\ Settle([calls EXCEPT ![p] = Returned(@, Response(numbers[p]))], attempts)
    /\ UNCHANGED <<reader, runner, inputs, mapper, numbers, error, fails, waits, elapsed>>

\* The request of the call at position p fails.  The last attempt rethrows: the call
\* rejects, and Promise.all, getIssuesFromGitHub and retrieve reject with its error.
\* Otherwise the call waits for the retry delay.
RespondFail(p) ==
    /\ mpc = "retrieve"
    /\ calls[p].st = "inflight"
    /\ fails' = [fails EXCEPT ![p] = @ + 1]
    /\ LET e == <<p, attempts[p]>>
       IN IF LastAttempt(calls[p].i)
          THEN /\ calls' = [calls EXCEPT ![p] = [@ EXCEPT !.st = "rejected", !.err = e]]
               /\ IF pc = "await"
                  THEN pc' = "failed" /\ error' = e
                  ELSE UNCHANGED <<pc, error>>
               /\ UNCHANGED waits
          ELSE /\ calls' = [calls EXCEPT ![p] = [@ EXCEPT !.st = "waiting"]]
               /\ waits' = [waits EXCEPT ![p] = @ + 1]
               /\ UNCHANGED <<pc, error>>
    /\ UNCHANGED <<reader, runner, inputs, mapper, numbers, batch, result, issues, groupedCommits,
                   attempts, fetched, batches, delays, elapsed, reordered>>

\* The retry delay of the call at position p elapses: i is incremented and the next
\* attempt is made; when the loop condition fails the call returns undefined.
RetryElapsed(p) ==
    /\ mpc = "retrieve"
    /\ calls[p].st = "waiting"
    /\ IF calls[p].i + 1 < retries
       THEN /\ calls' = [calls EXCEPT ![p] = [@ EXCEPT !.st = "inflight", !.i = @ + 1]]
            /\ attempts' = [attempts EXCEPT ![p] = @ + 1]
            /\ UNCHANGED <<pc, result, delays, batch, batches, issues, groupedCommits>>
       ELSE Settle([calls EXCEPT ![p] = [@ EXCEPT !.st = "resolved", !.i = @ + 1]], attempts)
    /\ UNCHANGED <<reader, runner, inputs, mapper, numbers, error, fails, fetched, waits, elapsed, reordered>>

\* The inter-batch delay elapses: the loop goes on with the next chunk
DelayElapsed ==
    /\ mpc = "retrieve"
    /\ pc = "delay"
    /\ elapsed' = elapsed + 1
    /\ Loop(numbers, batch, result, calls, attempts, delays)
    /\ UNCHANGED <<reader, runner, inputs, mapper, numbers, error, fails, fetched, waits, reordered>>

Next ==
    \/ MatchStep
    \/ BeginFetch
    \/ \E p \in DOMAIN calls : RespondOk(p)
    \/ \E p \in DOMAIN calls : RespondFail(p)
    \/ \E p \in DOMAIN calls : RetryElapsed(p)
    \/ DelayElapsed

Spec == Init /\ [][Next]_vars

\* -------------------------------------------------------------------- read
\* Runs of read that vary the decorations, the author dates, the commit graph
ReadInputs ==
    \/ repo \in DecoratedRepos /\ tag \in Targets(repo) /\ tagRegex \in TagRegexes
    \/ repo \in DatedRepos /\ tag = NoTag /\ tagRegex = Re(VersionRegex)
    \/ repo \in ShapedRepos /\ tag \in Targets(repo) /\ tagRegex = Re(VersionRegex)

\* read called on its own: getLatestTagsFromGit is running
ReadInit ==
    /\ ReadInputs
    /\ queries = << [cmd |-> "tags"] >>
    /\ mpc = "tags"
    /\ output = FALSE
    /\ rotate = 0
    /\ Unread
    /\ commits = <<>>
    /\ issueRegex = IssueRegex(TRUE)
    /\ externalLabels = DefaultConfig.external
    /\ localLabels = DefaultConfig.local
    /\ n = 1
    /\ retries = 1
    /\ tracker = Tracker
    /\ pc = "idle"
    /\ Unfetched

TooFewTagsNone(ts) == Len(ts) < 1

\* read: the test that makes it throw 'Failed to get tags with ...'
TooFewTags(ts) == Len(ts) <= 1

\* read when the tag listing arrives: the lines are parsed, the window is selected
\* and the commit listing is asked for, or an error is thrown
TagsListed ==
    /\ mpc = "tags"
    /\ \E lines \in { Split(getLatestTagsFromGit(repo, TagCount), "\n") } :
       \E ts \in { parseOutput([i \in 1..Len(lines) |-> tagParser(tagRegex, lines[i])]) } :
       \E bt \in { getTagsBetween(ts, tag) } :
          /\ tags' = ts
          /\ IF TooFewTags(ts)
             THEN /\ mpc' = "read.failed"
                  /\ readError' = "Failed to get tags with"
                  /\ UNCHANGED <<between, queries>>
             ELSE /\ between' = bt
                  /\ IF bt = Nothing
                     THEN /\ mpc' = "read.failed"
                          /\ readError' = "Failed to get tags"
                          /\ UNCHANGED queries
                     ELSE /\ mpc' = "commits"
                          /\ queries' = Append(queries, [cmd |-> "log", from |-> bt.from.name,
                                                         to |-> bt.to.name])
                          /\ UNCHANGED readError
    /\ UNCHANGED <<repo, tag, tagRegex, readResult, output, rotate, rendered, written,
                   rotated, exitCode>>
    /\ UNCHANGED <<inputs, pc, mapper, fetcher, error, issues, groupedCommits, history>>

\* read when the commit listing arrives: the lines are parsed and read returns
CommitsListed ==
    /\ mpc = "commits"
    /\ LET lines == Split(getCommitsFromGit(repo, between.from.name, between.to.name), "\n")
       IN readResult' = [commits |-> parseOutput([i \in 1..Len(lines) |->
                                                     commitParser(lines[i])]),
                         from |-> between.from,
                         to |-> between.to]
    /\ mpc' = "read.done"
    /\ UNCHANGED <<repo, tag, tagRegex, tags, between, readError, queries, output, rotate,
                   rendered, written, rotated, exitCode>>
    /\ UNCHANGED <<inputs, pc, mapper, fetcher, error, issues, groupedCommits, history>>

ReadNext == TagsListed \/ CommitsListed

ReadSpec == ReadInit /\ [][ReadNext]_vars

\* -------------------------------------------------------------------- main
\* Runs of main: read and retrieve with the configuration of the command line, the
\* batch size and the retry budget scaled to the repositories of the runs.  The tag
\* pattern reaches read when main passes it under the name read expects, and is
\* undefined there otherwise.
MainInit ==
    /\ repo \in ShapedRepos \cup { r \in DecoratedRepos : r.size = 1 }
    /\ tag \in {NoTag, RefName(1)}
    /\ tagRegex \in TagRegexes
    /\ output \in BOOLEAN
    /\ rotate \in {0, 1}
    /\ queries = << [cmd |-> "tags"] >>
    /\ mpc = "tags"
    /\ Unread
    /\ commits = <<>>
    /\ issueRegex = IssueRegex(TRUE)
    /\ externalLabels = DefaultConfig.external
    /\ localLabels = DefaultConfig.local
    /\ n \in 1..MaxBatch
    /\ retries \in 1..Min({2, MaxRetries})
    /\ tracker = Tracker
    /\ pc = "idle"
    /\ Unfetched

\* main after read returned: retrieve is called with the commits
MainRetrieve ==
    /\ mpc = "read.done"
    /\ mpc' = "retrieve"
    /\ commits' = readResult.commits
    /\ pc' = "map"
    /\ UNCHANGED <<issueRegex, externalLabels, localLabels, n, retries, tracker>>
    /\ UNCHANGED <<reader, output, rotate, rendered, written, rotated, exitCode>>
    /\ UNCHANGED <<mapper, fetcher, error, issues, groupedCommits, history>>

RetrieveStarted(p) == p \in {"map", "await", "delay", "done"}

\* main: await git.retrieve gives its result once retrieve has returned
RetrieveReturned(p) == p = "done"

\* main after retrieve returned: the changelog is rendered; with an output directory
\* the file is written next, otherwise main returns and the process ends
MainRender ==
    /\ mpc = "retrieve"
    /\ RetrieveReturned(pc)
    /\ rendered' = TRUE
    /\ IF output
       THEN mpc' = "write" /\ UNCHANGED exitCode
       ELSE mpc' = "exited" /\ exitCode' = 0
    /\ UNCHANGED <<reader, output, rotate, written, rotated>>
    /\ UNCHANGED <<inputs, pc, mapper, fetcher, error, issues, groupedCommits, history>>

\* files.handleFileOutput returned: the old files are rotated next when rotate > 0
FileWritten ==
    /\ mpc = "write"
    /\ written' = TRUE
    /\ IF rotate > 0
       THEN mpc' = "rotate" /\ UNCHANGED exitCode
       ELSE mpc' = "exited" /\ exitCode' = 0
    /\ UNCHANGED <<reader, output, rotate, rendered, rotated>>
    /\ UNCHANGED <<inputs, pc, mapper, fetcher, error, issues, groupedCommits, history>>

\* files.handleFileRotation returned: main returns and the process ends
FilesRotated ==
    /\ mpc = "rotate"
    /\ rotated' = TRUE
    /\ mpc' = "exited"
    /\ exitCode' = 0
    /\ UNCHANGED <<reader, output, rotate, rendered, written>>
    /\ UNCHANGED <<inputs, pc, mapper, fetcher, error, issues, groupedCommits, history>>

\* files.handleFileOutput or files.handleFileRotation rejected
FilesFailed ==
    /\ mpc \in {"write", "rotate"}
    /\ mpc' = "files.failed"
    /\ UNCHANGED <<reader, output, rotate, rendered, written, rotated, exitCode>>
    /\ UNCHANGED <<inputs, pc, mapper, fetcher, error, issues, groupedCommits, history>>

\* main(...).catch: the error is logged and the process exits with status 1
MainCatch ==
    /\ \/ mpc \in {"read.failed", "files.failed"}
       \/ mpc = "retrieve" /\ pc = "failed"
    /\ mpc' = "exited"
    /\ exitCode' = 1
    /\ UNCHANGED <<reader, output, rotate, rendered, written, rotated>>
    /\ UNCHANGED <<inputs, pc, mapper, fetcher, error, issues, groupedCommits, history>>

MainNext ==
    \/ TagsListed
    \/ CommitsListed
    \/ MainRetrieve
    \/ MatchStep
    \/ BeginFetch
    \/ \E p \in DOMAIN calls : RespondOk(p)
    \/ \E p \in DOMAIN calls : RespondFail(p)
    \/ \E p \in DOMAIN calls : RetryElapsed(p)
    \/ DelayElapsed
    \/ MainRender
    \/ FileWritten
    \/ FilesRotated
    \/ FilesFailed
    \/ MainCatch

MainSpec == MainInit /\ [][MainNext]_vars

\* ------------------------------------------------------------------ claims
Entries(g) == groupedCommits[g].commits
InGroup(c, g) == \E x \in DOMAIN Entries(g) : Entries(g)[x].hash = commits[c].hash
LocalGroupIds == (Len(externalLabels) + 1)..Len(groupedCommits)
Derived(c) == commitsWithIssues[c].issues
CommitOf(e) == CHOOSE c \in DOMAIN commits : commits[c].hash = e.hash

\* C1: every commit retrieve places in a local-rule group has zero linked issue
\* numbers, the linked issues being the ones retrieve re-derives from the commit
\* message with the issue pattern of the caller.
C1_LocalGroupsHoldUnlinkedCommits ==
    pc = "done" =>
        \A g \in LocalGroupIds : \A x \in DOMAIN Entries(g) :
            Derived(CommitOf(Entries(g)[x])) = <<>>

\* The (commit, issue position) pairs that qualify for an external rule
Qualifying(match) ==
    { a \in (DOMAIN commitsWithIssues) \X (1..MaxExec) :
        /\ a[2] <= Len(Derived(a[1]))
        /\ Derived(a[1])[a[2]] \in DOMAIN issues
        /\ match \in issues[Derived(a[1])[a[2]]].labels }
Before(a, b) == a[1] < b[1] \/ (a[1] = b[1] /\ a[2] < b[2])
Rank(Q, a) == Cardinality({ b \in Q : Before(b, a) }) + 1

\* C2: the group of an external rule holds exactly one entry for every pair (commit,
\* position in its issue list) whose issue number is in the issue mapping with a
\* label set containing the rule's match text, in commit order then issue order,
\* each entry the commit annotated with that issue number; a number absent from the
\* mapping contributes no entry.
C2_ExternalGroupsExact ==
    pc = "done" =>
        \A i \in 1..Len(externalLabels) :
            LET Q == Qualifying(externalLabels[i].match)
            IN /\ Len(Entries(i)) = Cardinality(Q)
               /\ \A a \in Q :
                    Entries(i)[Rank(Q, a)] =
                        [f \in DOMAIN commits[a[1]] \cup {"issues", "issueNumber"} |->
                            CASE f = "issues" -> Derived(a[1])
                              [] f = "issueNumber" -> Derived(a[1])[a[2]]
                              [] OTHER -> commits[a[1]][f]]

\* C2 witness: a finished run in which one commit has two entries in an external
\* group and some referenced issue number is absent from the mapping
C2_Witness ==
    /\ pc = "done"
    /\ \E i \in 1..Len(externalLabels) : \E x, y \in DOMAIN Entries(i) :
            x < y /\ Entries(i)[x].hash = Entries(i)[y].hash
    /\ \E c \in DOMAIN commitsWithIssues : \E j \in DOMAIN Derived(c) :
            Derived(c)[j] \notin DOMAIN issues

\* Whether a rule's pattern matches a commit name
Matches(match, name) ==
    IF match.type = "RegExp" THEN Exec(match.re, 0, name).found
    ELSE Includes(name, match.text)
SatisfiesExternal(c) ==
    \E i \in 1..Len(externalLabels) : \E j \in DOMAIN Derived(c) :
        /\ Derived(c)[j] \in DOMAIN issues
        /\ externalLabels[i].match \in issues[Derived(c)[j]].labels
SatisfiesLocal(c) ==
    /\ Derived(c) = <<>>
    /\ \E r \in 1..Len(localLabels) : Matches(localLabels[r].match, commits[c].name)

\* C3: a commit appears in some group returned by retrieve if and only if it
\* satisfies at least one external rule or at least one local rule.
C3_GroupedIffSatisfiesRule ==
    pc = "done" =>
        \A c \in DOMAIN commits :
            (\E g \in DOMAIN groupedCommits : InGroup(c, g))
                <=> (SatisfiesExternal(c) \/ SatisfiesLocal(c))

\* C4: retrieve returns exactly one group per configured rule, the groups of the
\* external rules first, in rule order, then the groups of the local rules, in rule
\* order, each carrying the name of its rule.
C4_OneGroupPerRule ==
    pc = "done" =>
        /\ Len(groupedCommits) = Len(externalLabels) + Len(localLabels)
        /\ \A i \in 1..Len(externalLabels) : groupedCommits[i].name = externalLabels[i].name
        /\ \A j \in 1..Len(localLabels) :
                groupedCommits[Len(externalLabels) + j].name = localLabels[j].name

\* C4 witness: a finished run with rules of both kinds, a group that matched a
\* commit and a group that matched none
C4_Witness ==
    /\ pc = "done"
    /\ Len(externalLabels) >= 1 /\ Len(localLabels) >= 1
    /\ \E g \in DOMAIN groupedCommits : Entries(g) = <<>>
    /\ \E g \in DOMAIN groupedCommits : Entries(g) # <<>>

\* C5: every issue number is fetched at most once per run: no two successful
\* tracker fetches are made for the same issue number.
C5_NoNumberFetchedTwice ==
    \A p, q \in DOMAIN fetched :
        (p # q /\ fetched[p] > 0 /\ fetched[q] > 0) => numbers[p] # numbers[q]

\* C5, per reference: every reference in the flattened, non-deduplicated issue list is
\* fetched successfully at most once per run, and exactly once when retrieve
\* returns, so that a number referenced m times is fetched m times.
C5_EachReferenceFetchedOnce ==
    \A p \in DOMAIN fetched :
        /\ fetched[p] <= 1
        /\ pc = "done" => fetched[p] = 1

\* C5 witness: a finished run in which one issue number was referenced, and
\* fetched, twice
C5_Witness ==
    /\ pc = "done"
    /\ \E p, q \in DOMAIN fetched :
            p # q /\ numbers[p] = numbers[q] /\ fetched[p] = 1 /\ fetched[q] = 1

Outstanding == Cardinality({ p \in DOMAIN calls : calls[p].st = "inflight" })
BatchOf(p) == ((p - 1) \div n) + 1

\* C6: batches are strictly sequential: a call of a batch is issued only after every
\* call of the earlier batches has completed and the delays between them have
\* elapsed, and the number of outstanding tracker requests is at most the batch size.
C6_BatchesSequential ==
    /\ Outstanding <= n
    /\ \A p \in DOMAIN calls :
            calls[p].st # "idle" =>
                /\ elapsed >= BatchOf(p) - 1
                /\ \A q \in DOMAIN calls : BatchOf(q) < BatchOf(p) => calls[q].st = "resolved"

\* C6 witness: a full second batch is outstanding
C6_Witness ==
    /\ n >= 2
    /\ Outstanding = n
    /\ \E p \in DOMAIN calls : BatchOf(p) = 2 /\ calls[p].st = "inflight"

\* C7: when the fetch-all operation reports the outcome of a batch, success or
\* failure, no call of that batch is in flight, waiting for a retry delay or going
\* to make a further attempt.
C7_OutcomeOnlyWhenBatchSettled ==
    \A b \in 1..batch :
        (b < batch \/ pc \in {"delay", "done", "failed"}) =>
            \A p \in ChunkPositions(numbers, b) : calls[p].st \in {"resolved", "rejected"}

CeilDiv(k, d) == CHOOSE c \in 0..k : c * d >= k /\ (c - 1) * d < k

\* C8: when the fetch of k numbers with batch size n succeeds, exactly ceil(k/n)
\* batches were issued, each of size n except possibly the last, and the inter-batch
\* delay was waited once after each batch but the last.
C8_BatchAndDelayCount ==
    pc = "done" =>
        LET k == Len(numbers)
            c == CeilDiv(k, n)
        IN /\ Len(batches) = c
           /\ \A b \in 1..c : batches[b] = IF b < c THEN n ELSE k - n * (c - 1)
           /\ delays = IF k = 0 THEN 0 ELSE c - 1
           /\ elapsed = delays

\* C8 witness: a finished fetch of at least two batches whose last batch is partial
C8_Witness ==
    /\ pc = "done"
    /\ Len(batches) >= 2
    /\ batches[Len(batches)] < n
    /\ delays = Len(batches) - 1

\* C9: a call with budget N makes attempts until the first success or the N-th
\* failure: after k < N failures and a success it has made k + 1 attempts, waited k
\* delays and returns the response; after N failures it has made N attempts, waited
\* N - 1 delays and rejects with the error of the last attempt.
C9_RetryUntilSuccessOrBudget ==
    \A p \in DOMAIN calls :
        /\ attempts[p] <= retries
        /\ calls[p].st = "resolved" =>
                /\ fails[p] < retries
                /\ attempts[p] = fails[p] + 1
                /\ waits[p] = fails[p]
                /\ calls[p].value = Response(numbers[p])
        /\ calls[p].st = "rejected" =>
                /\ fails[p] = retries
                /\ attempts[p] = retries
                /\ waits[p] = retries - 1
                /\ calls[p].err = <<p, retries>>
        /\ calls[p].st = "waiting" => fails[p] < retries

\* C9 witness: one call succeeded at its third attempt and another exhausted its
\* budget
C9_Witness ==
    \E p, q \in DOMAIN calls :
        /\ calls[p].st = "resolved" /\ fails[p] = 2 /\ attempts[p] = 3
        /\ calls[q].st = "rejected"

\* C10: the result of a successful fetch-all has one response per input number, the
\* i-th being the one obtained for the i-th number, whatever the completion order
\* and the retries of the calls.
C10_ResultInInputOrder ==
    /\ \A i \in DOMAIN result : result[i] = Response(numbers[i])
    /\ pc = "done" => Len(result) = Len(numbers)

\* C10 witness: a finished fetch in which a call resolved before one of a lower
\* slot of its batch, after a retry
C10_Witness ==
    /\ pc = "done"
    /\ reordered
    /\ \E p \in DOMAIN fails : fails[p] > 0
    /\ \E p, q \in DOMAIN numbers : numbers[p] # numbers[q] /\ BatchOf(p) = BatchOf(q)

\* C11: once a call has failed permanently (as many failed requests as its retry
\* budget) the fetch-all operation and retrieve have failed: retrieve returns no
\* issue mapping and no group, the batch of that call is the last one issued and no
\* call of a later batch is ever started.
C11_PermanentFailureFailsAll ==
    \A p \in DOMAIN fails :
        fails[p] >= retries =>
            /\ pc = "failed"
            /\ issues = <<>>
            /\ groupedCommits = <<>>
            /\ batch = BatchOf(p)
            /\ Len(batches) = BatchOf(p)
            /\ \A q \in DOMAIN calls :
                    BatchOf(q) > BatchOf(p) => calls[q].st = "idle" /\ attempts[q] = 0

\* C11 witness: retrieve failed in its second batch after a retry, the first batch
\* having been fetched, with a third batch never started
C11_Witness ==
    /\ pc = "failed"
    /\ retries >= 2
    /\ batch = 2
    /\ result # <<>>
    /\ \E q \in DOMAIN calls : BatchOf(q) = 3 /\ calls[q].st = "idle"
    /\ \E p \in DOMAIN calls : calls[p].st = "rejected" /\ fails[p] = retries

\* read has called getTagsBetween
Selected == mpc \in {"commits", "read.done"} \/ readError = "Failed to get tags"

\* The position of the tag the window starts from: the first when there is no
\* target, else the first with the name of the target; 0 when there is none
Chosen ==
    IF tag = NoTag THEN 1
    ELSE IF \E i \in DOMAIN tags : tags[i].name = tag
         THEN Min({ i \in DOMAIN tags : tags[i].name = tag })
         ELSE 0

\* C12: window selection over the parsed tag sequence returns nothing exactly when
\* the target is not in the sequence or no entry follows the chosen one; otherwise
\* from is the chosen tag (the first tag without a target, the first tag named as
\* the target with one) and to is the entry right after it.
C12_WindowIsChosenAndNext ==
    mpc # "tags" =>
        LET r == IF Selected THEN between ELSE getTagsBetween(tags, tag)
        IN /\ (r = Nothing) <=> (Chosen = 0 \/ Chosen + 1 > Len(tags))
           /\ r # Nothing => r.from = tags[Chosen] /\ r.to = tags[Chosen + 1]

\* C12 witness: a window selected for a target that is neither the newest nor the
\* oldest tag
C12_Witness ==
    /\ Selected
    /\ tag # NoTag
    /\ between # Nothing
    /\ Chosen > 1
    /\ Chosen + 1 < Len(tags)

\* The git log commands read has run for the commit history
HistoryQueries == { i \in DOMAIN queries : queries[i].cmd = "log" }

\* C13: read throws when the Tag Parser yields fewer than two tags ('Failed to get
\* tags with ...') and when window selection returns nothing ('Failed to get
\* tags'); when it has thrown, no commit-history query was issued, the tag listing
\* was asked for once only, and no commits, from or to are returned.
C13_ReadFailsBeforeHistoryQuery ==
    mpc # "tags" =>
        /\ Len(tags) <= 1 =>
                mpc = "read.failed" /\ readError = "Failed to get tags with"
        /\ (Len(tags) > 1 /\ (Chosen = 0 \/ Chosen + 1 > Len(tags))) =>
                mpc = "read.failed" /\ readError = "Failed to get tags"
        /\ mpc = "read.failed" =>
                /\ HistoryQueries = {}
                /\ queries = << [cmd |-> "tags"] >>
                /\ readResult = Nothing

\* C13 witness: read has thrown for a target that is the oldest of several tags
C13_Witness ==
    /\ mpc = "read.failed"
    /\ Len(tags) >= 2
    /\ tag # NoTag
    /\ Chosen = Len(tags)
    /\ readError = "Failed to get tags"

\* The decoration entries of commit c that carry the tag: prefix
TagEntries(c) ==
    { Decorations(repo, c)[j] : j \in { k \in DOMAIN Decorations(repo, c) :
                                            Decorations(repo, c)[k][1] = "tag: " } }

\* C14: every tag record the Tag Parser produces comes from a decoration entry that
\* carries the tag: prefix and has the name of the record, and the line of a commit
\* whose decoration has no tag: entry parses to no record, whatever the tag pattern,
\* an absent one included.
C14_TagsComeFromTagEntries ==
    mpc # "tags" =>
        /\ \A i \in DOMAIN tags :
                \E c \in 1..repo.size : (<<"tag: ">> \o tags[i].name) \in TagEntries(c)
        /\ \A c \in 1..repo.size :
                TagEntries(c) = {} => tagParser(tagRegex, TagLine(repo, c)) = <<>>

\* C15: the tag sequence handed to window selection is in descending order of the
\* instants the timestamps of the tags denote, whatever their timezone offsets.
C15_TagsNewestFirst ==
    mpc # "tags" =>
        \A i, j \in DOMAIN tags :
            i < j => Instant(tags[i].date) >= Instant(tags[j].date)

\* Reachable from the first ref and not from the second
RangeTwoDot(from, to) == Reachable(repo, from) \ Reachable(repo, to)

\* C16: when read returns for a window whose from is the newer tag and whose to is
\* the older one, the commits it returns are exactly the commits reachable from
\* the newer tag and not from the older tag, in every commit graph.
C16_CommitsOfNewerNotOfOlder ==
    (mpc = "read.done" /\ Instant(readResult.from.date) > Instant(readResult.to.date)) =>
        { readResult.commits[i].hash : i \in DOMAIN readResult.commits }
            = { Hashes[c] : c \in RangeTwoDot(Resolve(repo, readResult.from.name),
                                               Resolve(repo, readResult.to.name)) }

RECURSIVE SecondGroups(_, _, _)
\* The text of the second group of every non-overlapping match of a pattern in s
\* from offset pos on, leftmost first
SecondGroups(re, s, pos) ==
    LET at == { p \in pos..Len(s) : MatchFrom(re.src, 1, s, p + 1) # <<>> }
    IN IF at = {} THEN <<>>
       ELSE LET p == Min(at)
                b == MatchFrom(re.src, 1, s, p + 1)
                e == b[Len(b)] - 1
            IN <<SubSeq(s, b[re.grp2], b[re.grp2 + 1] - 1)>>
                   \o SecondGroups(re, s, IF e > p THEN e ELSE p + 1)

IsPrefix(a, b) == Len(a) <= Len(b) /\ a = SubSeq(b, 1, Len(a))

\* C17: for every commit message and every issue pattern, issue extraction returns
\* the second group of each non-overlapping match, left to right with duplicates
\* kept (the empty sequence without a match); while it runs, what it has collected
\* is the beginning of that sequence.
C17_IssuesAreSecondGroupsInOrder ==
    /\ \A c \in DOMAIN commitsWithIssues :
            commitsWithIssues[c].issues = SecondGroups(issueRegex, commits[c].name, 0)
    /\ (pc = "map" /\ ci <= Len(commits)) =>
            IsPrefix(cur, SecondGroups(issueRegex, commits[ci].name, 0))

\* The rule of a local group and the message of the commit of one of its entries
RuleOf(g) == localLabels[g - Len(externalLabels)].match
MessageOf(e) == commits[CommitOf(e)].name

\* C18: for every local rule and every commit matched by it, the name stored in the
\* rule's group after stripping no longer contains the rule's match text, also when
\* the message holds the match text more than once.
C18_StrippedNameLacksMatch ==
    pc = "done" =>
        \A g \in LocalGroupIds : \A x \in DOMAIN Entries(g) :
            ~Matches(RuleOf(g), Entries(g)[x].name)

\* Where the leftmost occurrence of a rule's match text starts in a name (offset
\* from 0) and how many tokens it spans
FirstOccurrence(match, name) ==
    IF match.type = "RegExp"
    THEN LET p == Min({ q \in 0..Len(name) : MatchFrom(match.re.src, 1, name, q + 1) # <<>> })
             b == MatchFrom(match.re.src, 1, name, p + 1)
         IN [start |-> p, len |-> b[Len(b)] - 1 - p]
    ELSE [start |-> Min({ q \in 0..(Len(name) - Len(match.text)) :
                            SubSeq(name, q + 1, q + Len(match.text)) = match.text }),
          len |-> Len(match.text)]

\* C18, first occurrence: for every local rule (a literal, or a pattern without the
\* global flag) and every commit in its group, the stored name is the commit
\* message with its leftmost occurrence of the match text removed and nothing else
\* changed; later occurrences stay.
C18_FirstOccurrenceStripped ==
    pc = "done" =>
        \A g \in LocalGroupIds : \A x \in DOMAIN Entries(g) :
            LET name == MessageOf(Entries(g)[x])
                o == FirstOccurrence(RuleOf(g), name)
            IN /\ Matches(RuleOf(g), name)
               /\ Entries(g)[x].name =
                      SubSeq(name, 1, o.start) \o SubSeq(name, o.start + o.len + 1, Len(name))

\* C18 witness: a finished run with a group entry whose stored name still holds the
\* match text of its rule, and one whose stored name holds it no more
C18_Witness ==
    /\ pc = "done"
    /\ \E g \in LocalGroupIds : \E x \in DOMAIN Entries(g) :
            Matches(RuleOf(g), Entries(g)[x].name)
    /\ \E g \in LocalGroupIds : \E x \in DOMAIN Entries(g) :
            ~Matches(RuleOf(g), Entries(g)[x].name)

\* read or retrieve has raised a fatal error in this run of main
FatalError == readError # "" \/ pc = "failed"

\* C20: in a run of main the changelog is rendered, the file written and the old
\* files rotated only after read and retrieve have both returned; if either has
\* raised a fatal error nothing is rendered, written or rotated and the process
\* does not end with status 0: it exits with status 1.
C20_NoPartialOutput ==
    /\ (rendered \/ written \/ rotated) => (readResult # Nothing /\ pc = "done")
    /\ FatalError =>
            /\ ~rendered /\ ~written /\ ~rotated
            /\ exitCode # 0
            /\ mpc = "exited" => exitCode = 1
    /\ exitCode = 0 => rendered

\* C20 witness: read returned, retrieve failed in its second batch, and the process
\* has exited with status 1 without output, in a run that names an output directory
C20_Witness ==
    /\ mpc = "exited"
    /\ exitCode = 1
    /\ output
    /\ readResult # Nothing
    /\ pc = "failed"
    /\ batch = 2
    /\ ~rendered /\ ~written /\ ~rotated

\* The rules and the issue pattern are the defaults
UnderDefaults ==
    /\ issueRegex = DefaultIssueRegex
    /\ externalLabels = DefaultConfig.external
    /\ localLabels = DefaultConfig.local
Others == Len(externalLabels) + 1

RECURSIVE DropSeparator(_)
\* A text without its leading blanks and dashes
DropSeparator(t) ==
    IF t # <<>> /\ Head(t) \in {" ", "-", "~"} THEN DropSeparator(Tail(t)) ELSE t
StartsWithHotfix(name) == name # <<>> /\ Head(name) = "Hotfix"
\* The message of a name of the form Hotfix - Message
MessageAfterHotfix(name) == DropSeparator(Tail(name))

C22_ExtractionTerminates ==
    [][(pc = "map" /\ ci <= Len(commits)
            /\ Exec(issueRegex, lastIndex, commits[ci].name).found)
        => lastIndex' > lastIndex]_vars

\* C23: a commit is in the group of a local rule if and only if it has no linked
\* issues and the rule's pattern matches its message, whatever commits precede it
\* in the list and whatever the flags of the pattern.
C23_LocalSelectionPerCommit ==
    pc = "done" =>
        \A r \in 1..Len(localLabels) :
            ValidMatch(localLabels[r].match) =>
                \A c \in DOMAIN commits :
                    InGroup(c, Len(externalLabels) + r)
                        <=> (/\ IssuesOf(commits[c]) = <<>>
                             /\ Matches(localLabels[r].match, commits[c].name))
====
